---- MODULE Spec2Model ----
(***************************************************************************)
(* Model of src/python/extract_replays.py: the incremental replay          *)
(* extraction (pagination, classification against the watermark, download  *)
(* phase, watermark commit, progress store).                               *)
(*                                                                         *)
(* The remote server, the file system and the operator (Ctrl-C) are the    *)
(* environment.  A remote listing is a sequence of runs <<t, n>>: n items  *)
(* that share the uploadtime t.  It is expanded into the real item         *)
(* sequence before the code's loops run over it, so a full page really     *)
(* holds 51 items.                                                         *)
(***************************************************************************)
EXTENDS Integers, Sequences, FiniteSets, TLC

(***************************************************************************)
(* Bounds of the model.                                                    *)
(***************************************************************************)
\* uploadtimes are 1..MaxTime ticks of half a day (positive epoch seconds)
MaxTime == 2
\* the max_pages argument ranges over 0..MaxPagesArg
MaxPagesArg == 2

(***************************************************************************)
(* Program constants.                                                      *)
(***************************************************************************)
\* len(replays) < 51 ends pagination
FULL_PAGE_SIZE == 51
\* Python's None; the code tests watermarks by truthiness, which None and 0
\* share, and uploadtimes are positive
None == 0

HalfDay == 12 * 60 * 60
SecondsPerDay == 2 * HalfDay

Times == {k * HalfDay : k \in 1..MaxTime}
RunSizes == {1, FULL_PAGE_SIZE}

Truthy(x) == x # None

(***************************************************************************)
(* Remote listing (environment).                                           *)
(***************************************************************************)
Runs == Times \X RunSizes

\* the listings considered: empty, one run, two runs (in any order)
Listings == {<<>>} \cup {<<r>> : r \in Runs} \cup {<<r, q>> : r \in Runs, q \in Runs}

\* the uploadtimes of a listing's items, run after run
ExpandTimes(runs) ==
    LET upto[j \in 0..Len(runs)] ==
            IF j = 0 THEN <<>>
            ELSE upto[j - 1] \o [i \in 1..runs[j][2] |-> runs[j][1]]
    IN  upto[Len(runs)]

\* the items of a listing, in listing order; the id is the position
ItemsOf(listing) ==
    LET ts == ExpandTimes(listing)
    IN  [i \in 1..Len(ts) |-> [id |-> i, uploadtime |-> ts[i]]] \o <<>>

IsDescending(listing) ==
    \A j \in 1..(Len(listing) - 1) : listing[j][1] >= listing[j + 1][1]

Min(S) == CHOOSE x \in S : \A y \in S : x <= y
Max(S) == CHOOSE x \in S : \A y \in S : x >= y

Range(s) == {s[i] : i \in 1..Len(s)}

(***************************************************************************)
(* Formats, progress record, persisted item files.                         *)
(***************************************************************************)
Formats == {"fmtA", "fmtB"}

\* state.json keys: fmt (newest-seen) and fmt + "_oldest" (oldest-seen)
Keys == Formats \X {"newest", "oldest"}
NewestKey(fmt) == <<fmt, "newest">>
OldestKey(fmt) == <<fmt, "oldest">>

EmptyState == [k \in Keys |-> None]

\* a load that trusts whatever the file was meant to hold
load_state_unchecked(file) == file.rec

\* the content of state.json: ok = FALSE when it does not parse
load_state(file) == IF file.ok THEN file.rec ELSE EmptyState

SaveOutcomes == {"written", "not_opened", "truncated"}

\* a save that keeps, key by key, the larger of the stored and the new value
save_state_merging(file, st, outcome) ==
    CASE outcome = "written"    ->
            [ok |-> TRUE,
             rec |-> [k \in DOMAIN st |->
                        IF file.ok /\ file.rec[k] > st[k] THEN file.rec[k] ELSE st[k]]]
      [] outcome = "not_opened" -> file
      [] outcome = "truncated"  -> [ok |-> FALSE, rec |-> EmptyState]

\* save_state: open(..., "w") and json.dump; every exception is logged
save_state(file, st, outcome) ==
    CASE outcome = "written"    -> [ok |-> TRUE, rec |-> st]
      [] outcome = "not_opened" -> file
      [] outcome = "truncated"  -> [ok |-> FALSE, rec |-> EmptyState]

\* an update that keeps both watermarks under the category's own key
update_state_one_key(st, format_id, dir, new_ts) ==
    IF ~Truthy(new_ts) THEN st
    ELSE IF dir = "newer"
            /\ (st[NewestKey(format_id)] = None \/ new_ts > st[NewestKey(format_id)])
         THEN [st EXCEPT ![NewestKey(format_id)] = new_ts]
    ELSE IF dir = "older"
         THEN IF st[NewestKey(format_id)] = None \/ new_ts < st[NewestKey(format_id)]
              THEN [st EXCEPT ![NewestKey(format_id)] = new_ts]
              ELSE st
    ELSE st

\* an update that knows the newest-seen watermark only
update_state_newest_only(st, format_id, dir, new_ts) ==
    IF ~Truthy(new_ts) THEN st
    ELSE IF dir = "newer"
            /\ (st[NewestKey(format_id)] = None \/ new_ts > st[NewestKey(format_id)])
         THEN [st EXCEPT ![NewestKey(format_id)] = new_ts]
    ELSE st

\* storing the candidate without comparing it with the recorded watermark
update_state_unguarded(st, format_id, dir, new_ts) ==
    IF ~Truthy(new_ts) THEN st
    ELSE IF dir = "newer" THEN [st EXCEPT ![NewestKey(format_id)] = new_ts]
    ELSE [st EXCEPT ![OldestKey(format_id)] = new_ts]

\* an update whose newer branch rewrites the whole entry of the category,
\* dropping its oldest-seen watermark
update_state_rewriting_entry(st, format_id, dir, new_ts) ==
    IF ~Truthy(new_ts) THEN st
    ELSE IF dir = "newer"
            /\ (st[NewestKey(format_id)] = None \/ new_ts > st[NewestKey(format_id)])
         THEN [st EXCEPT ![NewestKey(format_id)] = new_ts,
                         ![OldestKey(format_id)] = None]
    ELSE IF dir = "older"
         THEN IF st[OldestKey(format_id)] = None \/ new_ts < st[OldestKey(format_id)]
              THEN [st EXCEPT ![OldestKey(format_id)] = new_ts]
              ELSE st
    ELSE st

\* lines 457-478
update_state_for_format(st, format_id, dir, new_ts) ==
    IF ~Truthy(new_ts) THEN st
    ELSE IF dir = "newer"
            /\ (st[NewestKey(format_id)] = None \/ new_ts > st[NewestKey(format_id)])
         THEN [st EXCEPT ![NewestKey(format_id)] = new_ts]
    ELSE IF dir = "older"
         THEN IF st[OldestKey(format_id)] = None \/ new_ts < st[OldestKey(format_id)]
              THEN [st EXCEPT ![OldestKey(format_id)] = new_ts]
              ELSE st
    ELSE st

\* directory names below REPLAYS_DIR/<format>
RawDir == [kind |-> "name", name |-> "raw"]
DateDir(d) == [kind |-> "date", day |-> d]

\* datetime.fromtimestamp(r_time).strftime("%Y-%m-%d"): the local calendar
\* day, as a day number; tz is the machine's offset from UTC in seconds
ReplayDate(r_time, tz) == (r_time + tz) \div SecondsPerDay

\* where download_replay writes <replay_id>.json
ReplayPath(replay_date) == <<RawDir, DateDir(replay_date)>>

find_oldest_timestamp(file, files, format_id) ==
    LET st == load_state(file)
        children == {f.path[1] : f \in {g \in files : g.fmt = format_id}}
        date_dirs == {c \in children : c.kind = "date"}
    IN  IF st[OldestKey(format_id)] # None THEN st[OldestKey(format_id)]
        ELSE IF date_dirs = {} THEN None
        ELSE LET oldest == CHOOSE c \in date_dirs : \A e \in date_dirs : c.day <= e.day
                 stamps == {f.uploadtime :
                              f \in {g \in files : g.fmt = format_id /\ g.path = <<oldest>>}}
             IN  IF stamps = {} THEN None ELSE Min(stamps)

(***************************************************************************)
(* The server's answer to search.json?format=..&before=..                  *)
(***************************************************************************)
fetch_replay_page(listing, before, incl) ==
    LET Match(rep) == \/ ~Truthy(before)
                      \/ rep.uploadtime < before
                      \/ incl /\ rep.uploadtime = before
        hits == SelectSeq(ItemsOf(listing), Match)
    IN  IF Len(hits) <= FULL_PAGE_SIZE THEN hits ELSE SubSeq(hits, 1, FULL_PAGE_SIZE)

(***************************************************************************)
(* The classification loop over one page (for rep in replays).             *)
(***************************************************************************)
LoopVars(dn, nref, upd, ids) ==
    [done |-> dn, new_reference_ts |-> nref, format_state_updated |-> upd,
     new_replay_ids |-> ids]

\* a strict comparison at line 364 would let the item at the watermark through
AlreadySeenStrict(ref, r_time) == Truthy(ref) /\ r_time < ref

\* line 364: the replay was seen by an earlier run
AlreadySeen(ref, r_time) == Truthy(ref) /\ r_time <= ref

\* a candidate that is set once and never raised
IsNewerFirstOnly(candidate, r_time) == ~Truthy(candidate)

\* line 370: the replay is newer than the candidate watermark
IsNewer(candidate, r_time) == ~Truthy(candidate) \/ r_time > candidate

\* line 376: the replay is older than the candidate watermark
IsOlder(candidate, r_time) == ~Truthy(candidate) \/ r_time < candidate

\* a stop at the reference in either direction
StopsAtReferenceAlways(dir, ref, r_time) == AlreadySeen(ref, r_time)

\* lines 362-364: only a newer pass stops at a replay already seen
StopsAtReference(dir, ref, r_time) == dir = "newer" /\ AlreadySeen(ref, r_time)

\* a loop that skips a replay already seen and goes on with the page
ClassifyPageSkipping(dir, ref, acc, replays, k) ==
    LET seen == {i \in 1..k : StopsAtReference(dir, ref, replays[i].uploadtime)}
        Fresh(rep) == ~StopsAtReference(dir, ref, rep.uploadtime)
        kept == SelectSeq(SubSeq(replays, 1, k), Fresh)
        times == {kept[i].uploadtime : i \in 1..Len(kept)}
        best == IF dir = "newer" THEN Max(times) ELSE Min(times)
        moved == /\ kept # <<>>
                 /\ IF dir = "newer" THEN IsNewer(acc.new_reference_ts, best)
                                     ELSE IsOlder(acc.new_reference_ts, best)
    IN  [done |-> acc.done \/ seen # {},
         new_reference_ts |-> IF moved THEN best ELSE acc.new_reference_ts,
         format_state_updated |-> acc.format_state_updated \/ moved,
         new_replay_ids |-> acc.new_replay_ids \o [i \in 1..Len(kept) |-> kept[i].id]]

\* The loop state after the first k items of the page.  In direction newer
\* the loop breaks at the first replay already seen, so it queues the
\* items before that one; the candidate moves each time an item is beyond
\* it, which leaves it at the extreme uploadtime of the queued items when
\* that one is beyond the candidate the page started with.
ClassifyPage(dir, ref, acc, replays, k) ==
    LET seen == {i \in 1..k : StopsAtReference(dir, ref, replays[i].uploadtime)}
        m == IF seen = {} THEN k ELSE Min(seen) - 1
        times == {replays[i].uploadtime : i \in 1..m}
        best == IF dir = "newer" THEN Max(times) ELSE Min(times)
        moved == /\ m > 0
                 /\ IF dir = "newer" THEN IsNewer(acc.new_reference_ts, best)
                                     ELSE IsOlder(acc.new_reference_ts, best)
    IN  [done |-> acc.done \/ seen # {},
         new_reference_ts |-> IF moved THEN best ELSE acc.new_reference_ts,
         format_state_updated |-> acc.format_state_updated \/ moved,
         new_replay_ids |-> acc.new_replay_ids \o [i \in 1..m |-> replays[i].id]]

(***************************************************************************)
(* batch_download_replays: the attempts, grouped by date.                  *)
(***************************************************************************)
\* the values of s without repetition, ordered by where each first occurs
\* (the key order of a dict filled in the order of s)
FirstSeen(s) ==
    LET First(v) == Min({i \in 1..Len(s) : s[i] = v})
        Rank(v) == Cardinality({w \in Range(s) : First(w) < First(v)}) + 1
    IN  [j \in 1..Cardinality(Range(s)) |-> CHOOSE v \in Range(s) : Rank(v) = j]

Flatten(ss) ==
    LET upto[j \in 0..Len(ss)] == IF j = 0 THEN <<>> ELSE upto[j - 1] \o ss[j]
    IN  upto[Len(ss)]

\* by_date: the queued ids in the order they are attempted
AttemptOrder(ids, listing, tz) ==
    LET items == ItemsOf(listing)
        DateOf(rid) == ReplayDate(items[rid].uploadtime, tz)
        \* (concatenation makes the sequence explicit, so it is computed once)
        dates == FirstSeen([i \in 1..Len(ids) |-> DateOf(ids[i])] \o <<>>)
        Group(d) == LET On(rid) == DateOf(rid) = d IN SelectSeq(ids, On)
    IN  Flatten([j \in 1..Len(dates) |-> Group(dates[j])])

\* which attempts the environment lets succeed
DownloadPlans == {"all", "none", "first"}
Succeeds(plan, pos) ==
    CASE plan = "all"   -> TRUE
      [] plan = "none"  -> FALSE
      [] plan = "first" -> pos = 1

(***************************************************************************)
(* State.                                                                  *)
(***************************************************************************)
VARIABLES
    \* environment
    remote,                 \* format -> the listing the server holds for it
    inclusive,              \* whether the server's before= includes the cursor
    tz,                     \* offset of the machine's local time from UTC
    state_file,             \* state.json
    replay_files,           \* the item files under REPLAYS_DIR
    other,                  \* a second invocation of the script (SpecRace)
    consolidated,           \* the run of consolidate_json_files (SpecConsolidate)
    \* extract_replays: arguments and locals
    formats, direction, max_pages,
    state, stats, fmt_idx,
    format_state_updated, new_reference_ts, reference_ts,
    page, before_ts, new_replay_ids, done, download_stats,
    \* control
    pc,
    \* history of the run, for the properties
    requested,              \* the direction extract_replays was called with
    run,                    \* number of calls of extract_replays so far
    fetches,                \* page fetches issued in the current pass
    last_len,               \* number of items of the page fetched last
    stopped,                \* why pagination of the current pass ended
    pass_start,             \* the progress record when the current pass began
    errors_before,          \* stats["errors"] when the current pass began
    pass_exit,              \* how the current pass ended
    log,                    \* what happened in the current run
    prev,                   \* how the previous run ended
    trace                   \* the fetches and download attempts of the current pass

envVars == <<remote, inclusive, tz, other, consolidated>>
argVars == <<formats, direction, max_pages>>
passVars == <<format_state_updated, new_reference_ts, reference_ts, page,
              before_ts, new_replay_ids, done, download_stats>>
histVars == <<requested, run, fetches, last_len, stopped, pass_start,
              errors_before, pass_exit, log, prev, trace>>
vars == <<envVars, state_file, replay_files, argVars, state, stats, fmt_idx,
          passVars, pc, histVars>>

Directions == {"newer", "older"}
TzOffsets == {0, -HalfDay}

NoStats == [formats_processed |-> 0, replays_downloaded |-> 0, errors |-> 0]
NoDownloads == [downloaded |-> 0, errors |-> 0]
NoLog == [fetch_errors |-> 0, interrupted |-> FALSE, raised |-> 0,
          save_failed |-> FALSE]

fmt == formats[fmt_idx]
Replays == fetch_replay_page(remote[fmt], before_ts, inclusive)
Loop == LoopVars(done, new_reference_ts, format_state_updated, new_replay_ids)

\* the records state.json may hold before the first run: each watermark is
\* absent, the earliest uploadtime or the latest one
StoredStates == [Keys -> {None, HalfDay, MaxTime * HalfDay}]

NoPrev == [state |-> EmptyState, log |-> NoLog]

\* the second invocation before it starts: its record, whether it saved
\* after the first invocation had returned, whether its save failed
NoOther == [pc |-> "start", state |-> EmptyState, last |-> FALSE,
            save_failed |-> FALSE]

\* consolidate_json_files has not run
NotConsolidated == [done |-> FALSE, chunk_size |-> None, order |-> "asc",
                    plan |-> "all", outputs |-> {}, input |-> {}]

\* cursors: the before= value of every fetch issued; lens: the number of
\* items of every page received; attempted: the ids handed to download_replay
NoTrace == [cursors |-> <<>>, lens |-> <<>>, attempted |-> <<>>]

InitWith(formatLists, listings, files, offsets, dirs) ==
    /\ formats \in formatLists
    /\ remote \in [Range(formats) -> listings]
    /\ inclusive \in BOOLEAN
    /\ tz \in offsets
    /\ state_file \in {f \in files :
                         \A k \in Keys : k[1] \notin Range(formats) => f.rec[k] = None}
    /\ replay_files = {}
    /\ other = NoOther
    /\ consolidated = NotConsolidated
    /\ direction \in dirs
    /\ requested = direction
    /\ max_pages \in 0..MaxPagesArg
    /\ state = EmptyState
    /\ stats = NoStats
    /\ fmt_idx = 1
    /\ format_state_updated = FALSE
    /\ new_reference_ts = None
    /\ reference_ts = None
    /\ page = 0
    /\ before_ts = None
    /\ new_replay_ids = <<>>
    /\ done = FALSE
    /\ download_stats = NoDownloads
    /\ pc = "start"
    /\ run = 0
    /\ fetches = 0
    /\ last_len = 0
    /\ stopped = "no"
    /\ pass_start = EmptyState
    /\ errors_before = 0
    /\ pass_exit = "none"
    /\ log = NoLog
    /\ prev = NoPrev
    /\ trace = NoTrace

(***************************************************************************)
(* extract_replays.                                                        *)
(***************************************************************************)
\* lines 299-303: setup_directories, load_state, stats
Setup ==
    /\ pc = "start"
    /\ state' = load_state(state_file)
    /\ stats' = NoStats
    /\ fmt_idx' = 1
    /\ pc' = "format"
    /\ run' = run + 1
    /\ log' = NoLog
    /\ UNCHANGED <<envVars, state_file, replay_files, argVars, passVars,
                   requested, fetches, last_len, stopped, pass_start,
                   errors_before, pass_exit, prev, trace>>

\* a loop test that admits one page more
ContinuePagingInclusive(pg, maxp, dn) == pg <= maxp /\ ~dn

\* the test of `while page < max_pages and not done`
ContinuePaging(pg, maxp, dn) == pg < maxp /\ ~dn

\* breaking on an empty page only
StopPagingOnEmpty(replays, dn) == replays = <<>> \/ dn

\* lines 351-353 and 384-386: the breaks that end pagination after a page
StopPaging(replays, dn) ==
    replays = <<>> \/ dn \/ Len(replays) < FULL_PAGE_SIZE

\* an older pass that keeps its direction when no reference is found
BeginFormatNoFallback ==
    /\ pc = "format"
    /\ fmt_idx <= Len(formats)
    /\ stats' = [stats EXCEPT !.formats_processed = @ + 1]
    /\ format_state_updated' = FALSE
    /\ LET oldest == find_oldest_timestamp(state_file, replay_files, fmt)
       IN  /\ direction' = direction
           /\ reference_ts' = IF direction = "newer" THEN state[NewestKey(fmt)]
                              ELSE IF Truthy(oldest) THEN oldest ELSE None
           /\ new_reference_ts' = IF direction = "newer" THEN state[NewestKey(fmt)]
                                  ELSE None
    /\ page' = 0
    /\ before_ts' = IF direction' = "older" THEN reference_ts' ELSE None
    /\ new_replay_ids' = <<>>
    /\ done' = FALSE
    /\ pc' = IF ContinuePaging(0, max_pages, FALSE) THEN "paging" ELSE "downloading"
    /\ fetches' = 0
    /\ last_len' = 0
    /\ stopped' = IF ContinuePaging(0, max_pages, FALSE) THEN "no" ELSE "max_pages"
    /\ pass_start' = state
    /\ errors_before' = stats.errors
    /\ pass_exit' = "none"
    /\ trace' = NoTrace
    /\ UNCHANGED <<envVars, state_file, replay_files, formats, max_pages, state,
                   fmt_idx, download_stats, requested, run, log, prev>>

\* lines 305-337: the head of one iteration of `for fmt in formats`
BeginFormat ==
    /\ pc = "format"
    /\ fmt_idx <= Len(formats)
    /\ stats' = [stats EXCEPT !.formats_processed = @ + 1]
    /\ format_state_updated' = FALSE
    /\ LET oldest == find_oldest_timestamp(state_file, replay_files, fmt)
       IN  /\ direction' = IF direction = "newer" \/ ~Truthy(oldest)
                           THEN "newer" ELSE direction
           /\ reference_ts' = IF direction = "newer" THEN state[NewestKey(fmt)]
                              ELSE IF Truthy(oldest) THEN oldest ELSE None
           /\ new_reference_ts' = IF direction = "newer" THEN state[NewestKey(fmt)]
                                  ELSE None
    /\ page' = 0
    /\ before_ts' = IF direction' = "older" THEN reference_ts' ELSE None
    /\ new_replay_ids' = <<>>
    /\ done' = FALSE
    /\ pc' = IF ContinuePaging(0, max_pages, FALSE) THEN "paging" ELSE "downloading"
    /\ fetches' = 0
    /\ last_len' = 0
    /\ stopped' = IF ContinuePaging(0, max_pages, FALSE) THEN "no" ELSE "max_pages"
    /\ pass_start' = state
    /\ errors_before' = stats.errors
    /\ pass_exit' = "none"
    /\ trace' = NoTrace
    /\ UNCHANGED <<envVars, state_file, replay_files, formats, max_pages, state,
                   fmt_idx, download_stats, requested, run, log, prev>>

\* a loop that takes the next cursor from the first replay of the page
FetchPageCursorFirst ==
    /\ pc = "paging"
    /\ LET replays == Replays
           acc == ClassifyPage(direction, reference_ts, Loop, replays, Len(replays))
           stop == StopPaging(replays, acc.done)
           npage == IF stop THEN page ELSE page + 1
           goon == ~stop /\ ContinuePaging(npage, max_pages, acc.done)
       IN  /\ done' = acc.done
           /\ new_reference_ts' = acc.new_reference_ts
           /\ format_state_updated' = acc.format_state_updated
           /\ new_replay_ids' = acc.new_replay_ids
           /\ before_ts' = IF stop THEN before_ts ELSE replays[1].uploadtime
           /\ page' = npage
           /\ pc' = IF goon THEN "paging" ELSE "downloading"
           /\ stopped' = IF acc.done THEN "seen_watermark"
                         ELSE IF stop THEN "no_more"
                         ELSE IF goon THEN "no" ELSE "max_pages"
           /\ last_len' = Len(replays)
           /\ trace' = [trace EXCEPT !.cursors = Append(@, before_ts),
                                     !.lens = Append(@, Len(replays))]
    /\ fetches' = fetches + 1
    /\ UNCHANGED <<envVars, state_file, replay_files, argVars, state, stats, fmt_idx,
                   reference_ts, download_stats, requested, run, pass_start,
                   errors_before, pass_exit, log, prev>>

\* lines 339-389: one iteration of the while loop whose fetch succeeds
FetchPage ==
    /\ pc = "paging"
    /\ LET replays == Replays
           acc == ClassifyPage(direction, reference_ts, Loop, replays, Len(replays))
           stop == StopPaging(replays, acc.done)
           npage == IF stop THEN page ELSE page + 1
           goon == ~stop /\ ContinuePaging(npage, max_pages, acc.done)
       IN  /\ done' = acc.done
           /\ new_reference_ts' = acc.new_reference_ts
           /\ format_state_updated' = acc.format_state_updated
           /\ new_replay_ids' = acc.new_replay_ids
           /\ before_ts' = IF stop THEN before_ts ELSE replays[Len(replays)].uploadtime
           /\ page' = npage
           /\ pc' = IF goon THEN "paging" ELSE "downloading"
           /\ stopped' = IF acc.done THEN "seen_watermark"
                         ELSE IF stop THEN "no_more"
                         ELSE IF goon THEN "no" ELSE "max_pages"
           /\ last_len' = Len(replays)
           /\ trace' = [trace EXCEPT !.cursors = Append(@, before_ts),
                                     !.lens = Append(@, Len(replays))]
    /\ fetches' = fetches + 1
    /\ UNCHANGED <<envVars, state_file, replay_files, argVars, state, stats, fmt_idx,
                   reference_ts, download_stats, requested, run, pass_start,
                   errors_before, pass_exit, log, prev>>

\* a fetch failure that is not caught and ends the call
FetchPageFailsAborts ==
    /\ pc = "paging"
    /\ stats' = [stats EXCEPT !.errors = @ + 1]
    /\ pc' = "done"
    /\ fetches' = fetches + 1
    /\ stopped' = "fetch_error"
    /\ log' = [log EXCEPT !.fetch_errors = @ + 1]
    /\ trace' = [trace EXCEPT !.cursors = Append(@, before_ts)]
    /\ UNCHANGED <<envVars, state_file, replay_files, argVars, state, fmt_idx,
                   passVars, requested, run, last_len, pass_start, errors_before,
                   pass_exit, prev>>

\* lines 341, 411-415: fetch_replay_page raises (network, HTTP status, JSON)
FetchPageFails ==
    /\ pc = "paging"
    /\ stats' = [stats EXCEPT !.errors = @ + 1]
    /\ pc' = "downloading"
    /\ fetches' = fetches + 1
    /\ stopped' = "fetch_error"
    /\ log' = [log EXCEPT !.fetch_errors = @ + 1]
    /\ trace' = [trace EXCEPT !.cursors = Append(@, before_ts)]
    /\ UNCHANGED <<envVars, state_file, replay_files, argVars, state, fmt_idx,
                   passVars, requested, run, last_len, pass_start, errors_before,
                   pass_exit, prev>>

\* where an interrupt or an exception inside a loop over n items is
\* modelled: before the first item, after the first, after the last
AbortPoints(n) == {0, 1, n} \cap 0..n

\* lines 404-410 and 438-444: Ctrl-C during the fetch or after the first k
\* items of the page; both handlers run, each saving when a candidate exists
FetchPageInterrupted ==
    /\ pc = "paging"
    /\ \E k \in AbortPoints(Len(Replays)) :
         LET acc == ClassifyPage(direction, reference_ts, Loop, Replays, k)
             st == update_state_for_format(state, fmt, direction, acc.new_reference_ts)
         IN  /\ done' = acc.done
             /\ new_reference_ts' = acc.new_reference_ts
             /\ format_state_updated' = acc.format_state_updated
             /\ new_replay_ids' = acc.new_replay_ids
             /\ IF acc.format_state_updated
                THEN /\ state' = st
                     /\ \E o1 \in SaveOutcomes, o2 \in SaveOutcomes :
                          /\ state_file' =
                                save_state(save_state(state_file, st, o1), st, o2)
                          /\ log' = [log EXCEPT !.interrupted = TRUE,
                                                !.save_failed = @ \/ o2 # "written"]
                ELSE /\ log' = [log EXCEPT !.interrupted = TRUE]
                     /\ UNCHANGED <<state, state_file>>
    /\ pc' = "interrupted"
    /\ fetches' = fetches + 1
    /\ pass_exit' = "interrupt"
    /\ trace' = [trace EXCEPT !.cursors = Append(@, before_ts)]
    /\ UNCHANGED <<envVars, replay_files, argVars, stats, fmt_idx, reference_ts,
                   page, before_ts, download_stats, requested, run, last_len,
                   stopped, pass_start, errors_before, prev>>

\* the file download_replay writes for a queued replay
ReplayFile(rep) ==
    [fmt |-> fmt, path |-> ReplayPath(ReplayDate(rep.uploadtime, tz)),
     id |-> rep.id, uploadtime |-> rep.uploadtime, via |-> direction]

Attempts == AttemptOrder(new_replay_ids, remote[fmt], tz)

\* the files written by the first k attempts of order under a plan
Written(order, plan, k) ==
    LET items == ItemsOf(remote[fmt])
    IN  {ReplayFile(items[order[i]]) : i \in {j \in 1..k : Succeeds(plan, j)}}

\* a download phase that gives up at the first failed download
DownloadBatchStopsAtFailure ==
    /\ pc = "downloading"
    /\ \E plan \in DownloadPlans :
         LET order == Attempts
             fails == {j \in 1..Len(order) : ~Succeeds(plan, j)}
             n == IF fails = {} THEN Len(order) ELSE Min(fails)
             ok == Cardinality({j \in 1..n : Succeeds(plan, j)})
         IN  /\ download_stats' = [downloaded |-> ok, errors |-> n - ok]
             /\ replay_files' = replay_files \cup Written(order, plan, n)
             /\ stats' = [stats EXCEPT !.replays_downloaded = @ + ok,
                                       !.errors = @ + (n - ok)]
             /\ trace' = [trace EXCEPT !.attempted = SubSeq(order, 1, n)]
    /\ pc' = "commit"
    /\ UNCHANGED <<envVars, state_file, argVars, state, fmt_idx,
                   format_state_updated, new_reference_ts, reference_ts, page,
                   before_ts, new_replay_ids, done, requested, run, fetches,
                   last_len, stopped, pass_start, errors_before, pass_exit, log,
                   prev>>

\* lines 417-423: batch_download_replays returns
DownloadBatch ==
    /\ pc = "downloading"
    /\ \E plan \in DownloadPlans :
         LET order == Attempts
             n == Len(order)
             ok == Cardinality({j \in 1..n : Succeeds(plan, j)})
         IN  /\ download_stats' = [downloaded |-> ok, errors |-> n - ok]
             /\ replay_files' = replay_files \cup Written(order, plan, n)
             /\ stats' = [stats EXCEPT !.replays_downloaded = @ + ok,
                                       !.errors = @ + (n - ok)]
             /\ trace' = [trace EXCEPT !.attempted = order]
    /\ pc' = "commit"
    /\ UNCHANGED <<envVars, state_file, argVars, state, fmt_idx,
                   format_state_updated, new_reference_ts, reference_ts, page,
                   before_ts, new_replay_ids, done, requested, run, fetches,
                   last_len, stopped, pass_start, errors_before, pass_exit, log,
                   prev>>

\* an interrupt handler that re-raises without touching the record
DownloadInterruptedNoSave ==
    /\ pc = "downloading"
    /\ \E plan \in DownloadPlans, k \in AbortPoints(Len(new_replay_ids)) :
         /\ replay_files' = replay_files \cup Written(Attempts, plan, k)
         /\ trace' = [trace EXCEPT !.attempted = SubSeq(Attempts, 1, k)]
    /\ log' = [log EXCEPT !.interrupted = TRUE]
    /\ pc' = "interrupted"
    /\ pass_exit' = "interrupt"
    /\ UNCHANGED <<envVars, state_file, argVars, state, stats, fmt_idx, passVars,
                   requested, run, fetches, last_len, stopped, pass_start,
                   errors_before, prev>>

\* lines 438-444: Ctrl-C during the download phase, after k attempts
DownloadInterrupted ==
    /\ pc = "downloading"
    /\ \E plan \in DownloadPlans, k \in AbortPoints(Len(new_replay_ids)) :
         LET st == update_state_for_format(state, fmt, direction, new_reference_ts)
         IN  /\ replay_files' = replay_files \cup Written(Attempts, plan, k)
             /\ trace' = [trace EXCEPT !.attempted =
                                     IF k = 0 THEN <<>> ELSE SubSeq(Attempts, 1, k)]
             /\ IF format_state_updated
                THEN /\ state' = st
                     /\ \E o \in SaveOutcomes :
                          /\ state_file' = save_state(state_file, st, o)
                          /\ log' = [log EXCEPT !.interrupted = TRUE,
                                                !.save_failed = @ \/ o # "written"]
                ELSE /\ log' = [log EXCEPT !.interrupted = TRUE]
                     /\ UNCHANGED <<state, state_file>>
    /\ pc' = "interrupted"
    /\ pass_exit' = "interrupt"
    /\ UNCHANGED <<envVars, argVars, stats, fmt_idx, passVars, requested, run,
                   fetches, last_len, stopped, pass_start, errors_before, prev>>

\* an exception handler that counts the error and drops the candidate
DownloadRaisesNoCommit ==
    /\ pc = "downloading"
    /\ \E plan \in DownloadPlans, k \in AbortPoints(Len(new_replay_ids)) :
         /\ k < Len(new_replay_ids)
         /\ replay_files' = replay_files \cup Written(Attempts, plan, k)
         /\ trace' = [trace EXCEPT !.attempted = SubSeq(Attempts, 1, k)]
    /\ stats' = [stats EXCEPT !.errors = @ + 1]
    /\ fmt_idx' = fmt_idx + 1
    /\ pc' = "format"
    /\ log' = [log EXCEPT !.raised = @ + 1]
    /\ pass_exit' = "raised"
    /\ UNCHANGED <<envVars, state_file, argVars, state, passVars, requested, run,
                   fetches, last_len, stopped, pass_start, errors_before, prev>>

\* lines 445-451: an exception other than Ctrl-C leaves the download phase
\* (os.makedirs at 206 or 269 is outside every try) at attempt k + 1
DownloadRaises ==
    /\ pc = "downloading"
    /\ \E plan \in DownloadPlans, k \in AbortPoints(Len(new_replay_ids)) :
         /\ k < Len(new_replay_ids)
         /\ replay_files' = replay_files \cup Written(Attempts, plan, k)
         /\ trace' = [trace EXCEPT !.attempted = SubSeq(Attempts, 1, k)]
    /\ stats' = [stats EXCEPT !.errors = @ + 1]
    /\ state' = IF format_state_updated
                THEN update_state_for_format(state, fmt, direction, new_reference_ts)
                ELSE state
    /\ fmt_idx' = fmt_idx + 1
    /\ pc' = "format"
    /\ log' = [log EXCEPT !.raised = @ + 1]
    /\ pass_exit' = "raised"
    /\ UNCHANGED <<envVars, state_file, argVars, passVars, requested, run,
                   fetches, last_len, stopped, pass_start, errors_before, prev>>

\* a commit that needs a successful download in both directions
CommitFormatIfDownloaded ==
    /\ pc = "commit"
    /\ state' = IF format_state_updated /\ download_stats.downloaded > 0
                THEN update_state_for_format(state, fmt, direction, new_reference_ts)
                ELSE state
    /\ fmt_idx' = fmt_idx + 1
    /\ pc' = "format"
    /\ pass_exit' = "commit"
    /\ UNCHANGED <<envVars, state_file, replay_files, argVars, stats, passVars,
                   requested, run, fetches, last_len, stopped, pass_start,
                   errors_before, log, prev, trace>>

\* a commit that does not look at the number of downloads
CommitFormatAlways ==
    /\ pc = "commit"
    /\ state' = IF format_state_updated
                THEN update_state_for_format(state, fmt, direction, new_reference_ts)
                ELSE state
    /\ fmt_idx' = fmt_idx + 1
    /\ pc' = "format"
    /\ pass_exit' = "commit"
    /\ UNCHANGED <<envVars, state_file, replay_files, argVars, stats, passVars,
                   requested, run, fetches, last_len, stopped, pass_start,
                   errors_before, log, prev, trace>>

\* lines 425-436: the watermark commit
CommitFormat ==
    /\ pc = "commit"
    /\ state' = IF format_state_updated
                   /\ (direction = "older" => download_stats.downloaded > 0)
                THEN update_state_for_format(state, fmt, direction, new_reference_ts)
                ELSE state
    /\ fmt_idx' = fmt_idx + 1
    /\ pc' = "format"
    /\ pass_exit' = "commit"
    /\ UNCHANGED <<envVars, state_file, replay_files, argVars, stats, passVars,
                   requested, run, fetches, last_len, stopped, pass_start,
                   errors_before, log, prev, trace>>

\* lines 453-455: save_state(state); return stats
Finish ==
    /\ pc = "format"
    /\ fmt_idx > Len(formats)
    /\ \E o \in SaveOutcomes :
         /\ state_file' = save_state(state_file, state, o)
         /\ log' = [log EXCEPT !.save_failed = @ \/ o # "written"]
    /\ pc' = "done"
    /\ UNCHANGED <<envVars, replay_files, argVars, state, stats, fmt_idx, passVars,
                   requested, run, fetches, last_len, stopped, pass_start,
                   errors_before, pass_exit, prev, trace>>

\* The script is run again with the same arguments after it returned and
\* its record reached state.json.
CallAgain ==
    /\ pc = "done"
    /\ run = 1
    /\ ~log.save_failed
    /\ prev' = [state |-> state, log |-> log]
    /\ direction' = requested
    /\ state' = EmptyState
    /\ stats' = NoStats
    /\ fmt_idx' = 1
    /\ format_state_updated' = FALSE
    /\ new_reference_ts' = None
    /\ reference_ts' = None
    /\ page' = 0
    /\ before_ts' = None
    /\ new_replay_ids' = <<>>
    /\ done' = FALSE
    /\ download_stats' = NoDownloads
    /\ pc' = "start"
    /\ fetches' = 0
    /\ last_len' = 0
    /\ stopped' = "no"
    /\ pass_start' = EmptyState
    /\ errors_before' = 0
    /\ pass_exit' = "none"
    /\ trace' = NoTrace
    /\ UNCHANGED <<envVars, state_file, replay_files, formats, max_pages,
                   requested, run, log>>

Next ==
    \/ Setup
    \/ BeginFormat
    \/ FetchPageFails
    \/ FetchPage
    \/ FetchPageInterrupted
    \/ DownloadInterrupted
    \/ DownloadBatch
    \/ DownloadRaises
    \/ CommitFormat
    \/ Finish

OneFormat == {<<"fmtA">>}
StateFiles == [ok : {TRUE}, rec : StoredStates]

Init == InitWith(OneFormat, Listings, StateFiles, {0}, Directions)

\* one call of extract_replays for one format
Spec == Init /\ [][Next]_vars

\* two calls in succession, direction newer
NewestOnly == {f \in StateFiles : \A k \in Keys : k[2] = "oldest" => f.rec[k] = None}
InitTwice == InitWith(OneFormat, Listings, NewestOnly, {0}, {"newer"})
NextTwice == Next \/ CallAgain
SpecTwice == InitTwice /\ [][NextTwice]_vars

\* one call in either direction for a category whose two watermarks are
\* both absent or both at the same uploadtime
StateFilesEqual ==
    {f \in StateFiles : \A c \in Formats : f.rec[OldestKey(c)] = f.rec[NewestKey(c)]}
InitPaging == InitWith(OneFormat, Listings, StateFilesEqual, {0}, Directions)
SpecPaging == InitPaging /\ [][Next]_vars

\* one call for two formats, over a few listings and stored records
TwoFormats == {<<"fmtA", "fmtB">>}
ListingsFew == {<<>>, <<<<HalfDay, 1>>>>,
                <<<<MaxTime * HalfDay, FULL_PAGE_SIZE>>, <<HalfDay, 1>>>>}
\* per category: nothing recorded, or both watermarks at the earliest uploadtime
StateFilesFew ==
    {f \in StateFiles :
        \A c \in Formats : /\ f.rec[NewestKey(c)] \in {None, HalfDay}
                           /\ f.rec[OldestKey(c)] = f.rec[NewestKey(c)]}
InitFormats == InitWith(TwoFormats, ListingsFew, StateFilesFew, {0}, Directions)
SpecFormats == InitFormats /\ [][Next]_vars

\* a call for two formats as a sequential program: it takes its next step
\* as long as it has one; both categories start from the same watermarks
StateFilesSame ==
    {f \in StateFilesFew : f.rec[NewestKey("fmtA")] = f.rec[NewestKey("fmtB")]}
InitLive == InitWith(TwoFormats, ListingsFew, StateFilesSame, {0}, Directions)
SpecLive == InitLive /\ [][Next]_vars /\ WF_vars(Next)

\* one call for two formats; a category has nothing recorded or both
\* watermarks at the latest uploadtime
StateFilesLate ==
    {f \in StateFiles :
        \A c \in Formats : /\ f.rec[NewestKey(c)] \in {None, MaxTime * HalfDay}
                           /\ f.rec[OldestKey(c)] = f.rec[NewestKey(c)]}
InitFrame == InitWith(TwoFormats, ListingsFew, StateFilesLate, {0}, Directions)
SpecFrame == InitFrame /\ [][Next]_vars

\* The script is run again after it returned and its record reached
\* state.json, with --direction chosen anew.
CallAgainEither ==
    /\ pc = "done"
    /\ run = 1
    /\ ~log.save_failed
    /\ prev' = [state |-> state, log |-> log]
    /\ direction' \in Directions
    /\ requested' = direction'
    /\ state' = EmptyState
    /\ stats' = NoStats
    /\ fmt_idx' = 1
    /\ format_state_updated' = FALSE
    /\ new_reference_ts' = None
    /\ reference_ts' = None
    /\ page' = 0
    /\ before_ts' = None
    /\ new_replay_ids' = <<>>
    /\ done' = FALSE
    /\ download_stats' = NoDownloads
    /\ pc' = "start"
    /\ fetches' = 0
    /\ last_len' = 0
    /\ stopped' = "no"
    /\ pass_start' = EmptyState
    /\ errors_before' = 0
    /\ pass_exit' = "none"
    /\ trace' = NoTrace
    /\ UNCHANGED <<envVars, state_file, replay_files, formats, max_pages, run, log>>

\* two calls in succession, each in either direction, for one format whose
\* recorded oldest-seen watermark, if any, is not above its newest-seen one
StateFilesOrdered ==
    {f \in StateFiles :
        \A c \in Formats :
            (Truthy(f.rec[OldestKey(c)]) /\ Truthy(f.rec[NewestKey(c)]))
            => f.rec[OldestKey(c)] <= f.rec[NewestKey(c)]}
InitEither == InitWith(OneFormat, ListingsFew, StateFilesOrdered, {0}, Directions)
NextEither == Next \/ CallAgainEither
SpecEither == InitEither /\ [][NextEither]_vars

\* two calls for one format in either direction, on a machine east or west
\* of UTC, starting from a state.json that may be missing or unreadable
\* (ok = FALSE; rec is then what the unreadable bytes were meant to say)
ListingsWide == ListingsFew \cup {<<<<MaxTime * HalfDay, FULL_PAGE_SIZE>>, <<HalfDay, 10>>>>}
StateFilesWide ==
    {f \in [ok : BOOLEAN, rec : StoredStates] :
        \A k \in Keys : f.rec[k] \in {None, HalfDay}}
InitWide == InitWith(OneFormat, ListingsWide, StateFilesWide, TzOffsets, Directions)
SpecWide == InitWide /\ [][NextTwice]_vars

(***************************************************************************)
(* A second invocation of the script against the same state.json, reduced  *)
(* to what it does to the progress store: load, commit, save.              *)
(***************************************************************************)
\* lines 299-303: the other process loads the record
OtherLoad ==
    /\ other.pc = "start"
    /\ other' = [other EXCEPT !.pc = "loaded", !.state = load_state(state_file)]
    /\ UNCHANGED <<remote, inclusive, tz, consolidated, state_file, replay_files,
                   argVars, state, stats, fmt_idx, passVars, pc, histVars>>

\* lines 425-436: a newer pass of the other process commits the uploadtime
\* of an item of the listing as its candidate
OtherCommit ==
    /\ other.pc = "loaded"
    /\ \E f \in Range(formats) :
         \E ts \in {None} \cup {r[1] : r \in Range(remote[f])} :
            other' = [other EXCEPT
                        !.pc = "committed",
                        !.state = update_state_for_format(@, f, "newer", ts)]
    /\ UNCHANGED <<remote, inclusive, tz, consolidated, state_file, replay_files,
                   argVars, state, stats, fmt_idx, passVars, pc, histVars>>

\* lines 453-455: the other process saves its whole record and returns
OtherSave ==
    /\ other.pc = "committed"
    /\ \E o \in SaveOutcomes :
         /\ state_file' = save_state(state_file, other.state, o)
         /\ other' = [other EXCEPT !.pc = "saved", !.last = (pc = "done"),
                                   !.save_failed = (o # "written")]
    /\ UNCHANGED <<remote, inclusive, tz, consolidated, replay_files, argVars, state,
                   stats, fmt_idx, passVars, pc, histVars>>

NextRace == Next \/ OtherLoad \/ OtherCommit \/ OtherSave

\* two invocations in direction newer against one state.json
NewestFew == {f \in NewestOnly : \A k \in Keys : f.rec[k] \in {None, HalfDay}}
InitRace == InitWith(OneFormat, ListingsFew, NewestFew, {0}, {"newer"})
SpecRace == InitRace /\ [][NextRace]_vars

(***************************************************************************)
(* consolidate_json_files.py, run over REPLAYS_DIR/<format>/raw after the  *)
(* extraction returned.                                                    *)
(***************************************************************************)
\* chunk_size: None (the default) or a number of files
ChunkSizes == {None, 1, 50}
\* the order in which os.listdir returns the names of a directory
ListOrders == {"asc", "desc"}
\* which item files json.load accepts
ParsePlans == {"all", "none", "first"}
Parses(plan, id) ==
    CASE plan = "all"   -> TRUE
      [] plan = "none"  -> FALSE
      [] plan = "first" -> id = 1

\* line 24: the immediate subdirectories of input_dir
DayDirs(files, format_id) ==
    {f.path[2] : f \in {g \in files : g.fmt = format_id /\ g.path[1] = RawDir}}

\* line 36: the .json files of a day directory, as listed
JsonFiles(files, format_id, day_dir, order) ==
    LET ids == {f.id : f \in {g \in files : g.fmt = format_id
                                            /\ g.path = <<RawDir, day_dir>>}}
        top == IF ids = {} THEN 0 ELSE Max(ids)
        In(i) == i \in ids
        asc == SelectSeq([i \in 1..top |-> i], In)
    IN  IF order = "asc" THEN asc
        ELSE [i \in 1..Len(asc) |-> asc[Len(asc) + 1 - i]] \o <<>>

\* lines 44-48
Chunks(json_files, chunk_size) ==
    IF Truthy(chunk_size)
    THEN [j \in 1..((Len(json_files) + chunk_size - 1) \div chunk_size) |->
            SubSeq(json_files, (j - 1) * chunk_size + 1,
                   IF j * chunk_size < Len(json_files) THEN j * chunk_size
                   ELSE Len(json_files))]
    ELSE <<json_files>>

\* lines 52-61: the records of the files of a chunk that parse
AllData(files_chunk, plan) ==
    LET Ok(id) == Parses(plan, id) IN SelectSeq(files_chunk, Ok)

\* writing a file for every chunk
ChunkAlwaysWritten(all_data) == TRUE

\* lines 63-65: a chunk without valid data is skipped
ChunkWritten(all_data) == all_data # <<>>

\* lines 71-74: the name of the output file (chunk 0: no suffix)
OutputFile(day_dir, chunk_idx, chunks) ==
    [day |-> day_dir, chunk |-> IF Len(chunks) > 1 THEN chunk_idx ELSE 0]

\* lines 31-82: the parquet files written for one day directory
DayOutputs(files, format_id, day_dir, chunk_size, order, plan) ==
    LET json_files == JsonFiles(files, format_id, day_dir, order)
        chunks == Chunks(json_files, chunk_size)
    IN  IF json_files = <<>> THEN {}
        ELSE {[file |-> OutputFile(day_dir, j, chunks),
               records |-> AllData(chunks[j], plan)] :
                 j \in {i \in 1..Len(chunks) : ChunkWritten(AllData(chunks[i], plan))}}

\* lines 8-88
Consolidate ==
    /\ pc = "done"
    /\ ~consolidated.done
    /\ \E cs \in ChunkSizes, ord \in ListOrders, plan \in ParsePlans :
         consolidated' =
            [done |-> TRUE, chunk_size |-> cs, order |-> ord, plan |-> plan,
             input |-> replay_files,
             outputs |-> UNION {DayOutputs(replay_files, formats[1], d, cs, ord, plan) :
                                  d \in DayDirs(replay_files, formats[1])}]
    /\ UNCHANGED <<remote, inclusive, tz, other, state_file, replay_files, argVars,
                   state, stats, fmt_idx, passVars, pc, histVars>>

NextConsolidate == Next \/ Consolidate

InitConsolidate == InitWith(OneFormat, ListingsFew, NewestFew, {0}, {"newer"})
SpecConsolidate == InitConsolidate /\ [][NextConsolidate]_vars

(***************************************************************************)
(* Properties.                                                             *)
(***************************************************************************)
\* the previous call returned without a failed fetch and saved the record
PrevRunClean == prev.log.fetch_errors = 0 /\ ~prev.log.save_failed

\* C1 -- Idempotence of newer runs: when extract_replays ran in direction
\* newer and is called again on the same descending remote listing, the
\* second call queues no item, downloads no item and leaves the newest-seen
\* watermark of the category as the first call left it.
C1_NewerIdempotent ==
    (/\ run = 2
     /\ requested = "newer"
     /\ PrevRunClean
     /\ \A f \in Range(formats) : IsDescending(remote[f]))
    => /\ new_replay_ids = <<>>
       /\ stats.replays_downloaded = 0
       /\ \A f \in Range(formats) : state[NewestKey(f)] = prev.state[NewestKey(f)]
       /\ pc = "done" /\ state_file.ok
            => \A f \in Range(formats) :
                 state_file.rec[NewestKey(f)] = prev.state[NewestKey(f)]

\* a second call that fetched a page of a listing the first call downloaded from
C1_Witness ==
    /\ run = 2
    /\ requested = "newer"
    /\ PrevRunClean
    /\ \A f \in Range(formats) : IsDescending(remote[f])
    /\ pc = "done"
    /\ last_len > 0
    /\ replay_files # {}
    /\ state_file.ok

\* C2 -- Monotonicity of the newest-seen watermark: at every point of a
\* pass and after it, however the pass fetched, downloaded and stopped, the
\* newest-seen watermark of every category in the progress record is at
\* least what it was when the pass began, and is not removed.
C2_NewestMonotonic ==
    \A f \in Range(formats) :
        /\ state[NewestKey(f)] >= pass_start[NewestKey(f)]
        /\ Truthy(pass_start[NewestKey(f)]) => Truthy(state[NewestKey(f)])

\* a newer pass that committed a candidate below the recorded watermark
\* (older was requested, no reference was found, the listing is older)
C2_Witness ==
    /\ pass_exit = "commit"
    /\ direction = "newer"
    /\ format_state_updated
    /\ \E f \in Range(formats) :
         /\ Truthy(pass_start[NewestKey(f)])
         /\ new_reference_ts < pass_start[NewestKey(f)]
         /\ state[NewestKey(f)] = pass_start[NewestKey(f)]

PassEnded == pass_exit \in {"commit", "raised"}

\* C4 -- Watermark invariant after every completed pass: the newest-seen
\* watermark of a category, if present, is >= the uploadtime of every item
\* persisted for it by newer passes, and the oldest-seen watermark, if
\* present, is <= the uploadtime of every item persisted by older passes.
C4_WatermarkCoversFiles ==
    PassEnded =>
        \A file \in replay_files :
            /\ (file.via = "newer" /\ Truthy(state[NewestKey(file.fmt)]))
                  => state[NewestKey(file.fmt)] >= file.uploadtime
            /\ (file.via = "older" /\ Truthy(state[OldestKey(file.fmt)]))
                  => state[OldestKey(file.fmt)] <= file.uploadtime

\* an older pass that persisted an item below the recorded oldest watermark
C4_Witness ==
    /\ PassEnded
    /\ \E file \in replay_files :
         /\ file.via = "older"
         /\ Truthy(pass_start[OldestKey(file.fmt)])
         /\ file.uploadtime < pass_start[OldestKey(file.fmt)]
         /\ state[OldestKey(file.fmt)] = file.uploadtime

\* C5 -- Older-direction commit guard: when an older pass reaches the
\* commit with no successful download (all failed, or nothing queued), the
\* oldest-seen watermark of the category is what it was before the pass.
C5_OlderCommitGuard ==
    (pass_exit = "commit" /\ direction = "older" /\ download_stats.downloaded = 0)
    => \A f \in Range(formats) : state[OldestKey(f)] = pass_start[OldestKey(f)]

\* an older pass whose candidate is below the watermark and whose downloads
\* all failed
C5_Witness ==
    /\ pass_exit = "commit"
    /\ direction = "older"
    /\ download_stats.downloaded = 0
    /\ download_stats.errors > 0
    /\ format_state_updated
    /\ \E f \in Range(formats) : new_reference_ts < pass_start[OldestKey(f)]

\* C6 -- Interruption commit: when Ctrl-C arrives during the paging or the
\* downloading of a category, then at the time the interrupt leaves
\* extract_replays the candidate derived so far is in the progress record
\* (merged by update_state_for_format) and, unless the write failed, the
\* progress store holds that record.
C6_InterruptCommits ==
    (pc = "interrupted" /\ format_state_updated)
    => /\ state = update_state_for_format(pass_start, formats[fmt_idx], direction,
                                          new_reference_ts)
       /\ direction = "newer"
            => /\ Truthy(state[NewestKey(formats[fmt_idx])])
               /\ state[NewestKey(formats[fmt_idx])] >= new_reference_ts
       /\ direction = "older"
            => /\ Truthy(state[OldestKey(formats[fmt_idx])])
               /\ state[OldestKey(formats[fmt_idx])] <= new_reference_ts
       /\ ~log.save_failed => state_file = [ok |-> TRUE, rec |-> state]

\* an interrupt during the download phase whose handler changed the record
\* and the store
C6_Witness ==
    /\ pc = "interrupted"
    /\ format_state_updated
    /\ stopped # "no"
    /\ ~log.save_failed
    /\ state # pass_start
    /\ state_file = [ok |-> TRUE, rec |-> state]

\* C8 -- Page-exhaustion stop: after a fetched page with fewer than 51
\* items (an empty page included) the pass fetches no further page, whatever
\* max_pages and the page counter are: paging goes on only after a full page.
C8_ShortPageStops ==
    (pc = "paging" /\ fetches > 0) => last_len = FULL_PAGE_SIZE

\* a short, non-empty page ended pagination although max_pages allowed more
C8_Witness ==
    /\ pc = "downloading"
    /\ stopped = "no_more"
    /\ last_len > 0
    /\ last_len < FULL_PAGE_SIZE
    /\ page + 1 < max_pages

\* C9 -- max_pages cap: a pass never issues more than max_pages page
\* fetches; when the cap ends pagination no error is counted for it, and the
\* pass goes through the download phase and the commit with the queued items.
C9_MaxPagesCap ==
    /\ fetches <= max_pages
    /\ stopped = "max_pages"
         => /\ pc \in {"downloading", "commit", "format", "done", "interrupted"}
            /\ page = max_pages
            /\ Len(new_replay_ids) = FULL_PAGE_SIZE * max_pages
            /\ pc = "downloading" => stats.errors = errors_before
            /\ pass_exit = "commit"
                 => /\ download_stats.downloaded + download_stats.errors
                         = Len(new_replay_ids)
                    /\ stats.errors = errors_before + download_stats.errors
                    /\ (direction = "newer" /\ new_replay_ids # <<>>)
                         => \A f \in Range(formats) :
                              state[NewestKey(f)] >= new_reference_ts

\* a pass that fetched max_pages full pages, downloaded and committed
C9_Witness ==
    /\ stopped = "max_pages"
    /\ max_pages > 0
    /\ fetches = max_pages
    /\ pass_exit = "commit"
    /\ download_stats.downloaded > 0
    /\ state # pass_start

\* the categories whose pass ended before the current one began
DoneFormats == {formats[j] : j \in 1..(fmt_idx - 1)}

\* C7 -- Category-granularity durability: while the pass of a later
\* category runs, the progress store holds the watermarks that the passes
\* of the earlier categories committed (each of them ended at its commit
\* step, none by an exception).
C7_SavedBeforeNextFormat ==
    (pc \in {"paging", "downloading", "commit"} /\ log.raised = 0)
    => \A f \in DoneFormats :
         /\ load_state(state_file)[NewestKey(f)] = state[NewestKey(f)]
         /\ load_state(state_file)[OldestKey(f)] = state[OldestKey(f)]

\* C10 -- Fetch-error isolation: a failed page fetch ends the pagination
\* of the category, the items queued from the earlier (full) pages go to the
\* download phase, one error is counted for the failure, and the call
\* returns only after every category of the list was processed.
C10_FetchErrorIsolated ==
    /\ stopped = "fetch_error"
         => /\ pc # "paging"
            /\ Len(new_replay_ids) = FULL_PAGE_SIZE * (fetches - 1)
            /\ pc = "downloading" => stats.errors = errors_before + 1
            /\ pass_exit = "commit"
                 => /\ download_stats.downloaded + download_stats.errors
                         = Len(new_replay_ids)
                    /\ stats.errors = errors_before + 1 + download_stats.errors
    /\ pc = "done" => stats.formats_processed = Len(formats)

\* the second page of the first category failed, its first page was
\* downloaded, and the second category was processed without a failed fetch
C10_Witness ==
    /\ pc = "done"
    /\ log.fetch_errors = 1
    /\ stopped # "fetch_error"
    /\ Len(formats) = 2
    /\ stats.formats_processed = 2
    /\ Cardinality({file \in replay_files : file.fmt = formats[1]}) = FULL_PAGE_SIZE
    /\ Len(ItemsOf(remote[formats[1]])) > FULL_PAGE_SIZE
    /\ max_pages > 1

\* how often v occurs in the sequence s
Count(s, v) == Cardinality({i \in 1..Len(s) : s[i] = v})

\* the download phase of the current pass has returned
Downloaded == pc = "commit" \/ pass_exit = "commit"

\* C11 -- Partial-failure tolerant download phase: when the download phase
\* returns, every entry of the queue has been attempted exactly once (the
\* attempts are the queue, regrouped by date), whatever attempts failed, and
\* downloaded + errors is the number of queued items.
C11_EveryQueuedAttempted ==
    Downloaded
    => /\ Len(trace.attempted) = Len(new_replay_ids)
       /\ \A rid \in Range(new_replay_ids) \cup Range(trace.attempted) :
            Count(trace.attempted, rid) = Count(new_replay_ids, rid)
       /\ download_stats.downloaded + download_stats.errors = Len(new_replay_ids)
       /\ stats.errors >= errors_before + download_stats.errors

\* every download of a queue of more than a page failed, the first one
\* included, and still all were attempted
C11_Witness ==
    /\ Downloaded
    /\ Len(new_replay_ids) > FULL_PAGE_SIZE
    /\ download_stats.downloaded = 0
    /\ download_stats.errors = Len(new_replay_ids)
    /\ Len(trace.attempted) = Len(new_replay_ids)

\* the category of the pass that ended last
LastFormat == formats[fmt_idx - 1]

\* the uploadtimes of the queued items of that pass
QueuedTimes ==
    LET items == ItemsOf(remote[LastFormat])
    IN  {items[new_replay_ids[i]].uploadtime : i \in 1..Len(new_replay_ids)}

C13_ExceptionIsolated ==
    /\ pass_exit = "raised"
         => /\ pc \in {"format", "done"}
            /\ stats.errors = errors_before + 1
                                + (IF stopped = "fetch_error" THEN 1 ELSE 0)
            /\ state = IF format_state_updated
                       THEN update_state_for_format(pass_start, LastFormat, direction,
                                                    new_reference_ts)
                       ELSE pass_start
            /\ (format_state_updated /\ direction = "newer")
                 => state[NewestKey(LastFormat)] >= new_reference_ts
    /\ (pc = "done" /\ log.raised > 0)
         => /\ stats.formats_processed = Len(formats)
            /\ stats.errors >= log.raised
            /\ ~log.save_failed => state_file = [ok |-> TRUE, rec |-> state]

\* the download phase of the first category raised, its candidate is in
\* the saved record, and the second category was processed and committed
C13_Witness ==
    /\ pc = "done"
    /\ Len(formats) = 2
    /\ log.raised = 1
    /\ pass_exit = "commit"
    /\ ~log.save_failed
    /\ requested = "newer"
    /\ state_file.ok
    /\ state_file.rec[NewestKey(formats[1])] > HalfDay
    /\ \A file \in replay_files : file.fmt # formats[1]

\* the files of a category under REPLAYS_DIR
FilesOf(f) == {file \in replay_files : file.fmt = f}

\* C14 -- Older-direction reference recovery: an older pass for a category
\* that has no oldest-seen watermark in state.json but has item files under
\* category/raw/date takes as reference the minimum uploadtime of the files
\* of the earliest date partition, and pages with before = that reference.
C14_OlderRecoversReference ==
    (/\ requested = "older"
     /\ pc = "paging"
     /\ fetches = 0
     /\ ~Truthy(load_state(state_file)[OldestKey(fmt)])
     /\ FilesOf(fmt) # {})
    => LET days == {file.path[2].day : file \in FilesOf(fmt)}
           first == {file \in FilesOf(fmt) : file.path[2].day = Min(days)}
           recovered == Min({file.uploadtime : file \in first})
       IN  /\ direction = "older"
           /\ reference_ts = recovered
           /\ before_ts = recovered

\* the pass of a category has begun
PassBegun == pc \in {"paging", "downloading", "commit", "interrupted"} \/ pass_exit # "none"

\* the category of the pass that began last
PassFormat == formats[IF pass_exit \in {"commit", "raised"} THEN fmt_idx - 1 ELSE fmt_idx]

\* the number of items of all pages received in the pass
Received ==
    LET upto[j \in 0..Len(trace.lens)] ==
            IF j = 0 THEN 0 ELSE upto[j - 1] + trace.lens[j]
    IN  upto[Len(trace.lens)]

\* C15 -- Older-to-newer fallback: when older is requested for a category
\* without an oldest-seen watermark and without recoverable item files, the
\* pass runs as a newer pass with no reference: the first fetch has no
\* cursor, every returned item is queued, no watermark stop occurs, and the
\* commit goes to the newest-seen watermark while the oldest-seen stays absent.
C15_OlderFallsBackToNewer ==
    (/\ PassBegun
     /\ requested = "older"
     /\ ~Truthy(pass_start[OldestKey(PassFormat)])
     /\ run = 1)
    => /\ direction = "newer"
       /\ reference_ts = None
       /\ trace.cursors # <<>> => trace.cursors[1] = None
       /\ ~done /\ stopped # "seen_watermark"
       /\ pc # "interrupted" => Len(new_replay_ids) = Received
       /\ ~Truthy(state[OldestKey(PassFormat)])
       /\ (pass_exit = "commit" /\ new_replay_ids # <<>>)
            => state[NewestKey(PassFormat)]
                 = Max({pass_start[NewestKey(PassFormat)], Max(QueuedTimes)})

\* a fallback pass that queued a full page and a short one and committed
\* the newest-seen watermark
C15_Witness ==
    /\ requested = "older"
    /\ direction = "newer"
    /\ pass_exit = "commit"
    /\ Len(trace.lens) = 2
    /\ Len(new_replay_ids) > FULL_PAGE_SIZE
    /\ ~Truthy(state[OldestKey(PassFormat)])
    /\ state[NewestKey(PassFormat)] > pass_start[NewestKey(PassFormat)]

\* C16 -- End-to-end first newer run: with no newest-seen watermark for
\* the category and a server that returns a page of 51 items and then a
\* page of 10, exactly two pages are fetched, pagination ends on the short
\* page, 61 downloads are attempted and the committed newest-seen watermark
\* is the maximum uploadtime of the 61 items.
C16_FirstNewerRun ==
    (/\ requested = "newer"
     /\ PassBegun
     /\ ~Truthy(pass_start[NewestKey(PassFormat)])
     /\ trace.lens = <<FULL_PAGE_SIZE, 10>>)
    => /\ fetches = 2
       /\ pc # "paging"
       /\ stopped = "no_more"
       /\ Len(new_replay_ids) = 61
       /\ Cardinality(Range(new_replay_ids)) = 61
       /\ Downloaded
            => /\ Len(trace.attempted) = 61
               /\ download_stats.downloaded + download_stats.errors = 61
       /\ pass_exit = "commit"
            => LET items == ItemsOf(remote[PassFormat])
               IN  /\ Len(items) = 61
                   /\ state[NewestKey(PassFormat)]
                        = Max({items[i].uploadtime : i \in 1..Len(items)})

\* the scenario ran to the commit
C16_Witness ==
    /\ requested = "newer"
    /\ run = 1
    /\ ~Truthy(pass_start[NewestKey(PassFormat)])
    /\ trace.lens = <<FULL_PAGE_SIZE, 10>>
    /\ pass_exit = "commit"
    /\ download_stats.downloaded = 61
    /\ Cardinality(replay_files) = 61
    /\ state[NewestKey(PassFormat)] = MaxTime * HalfDay

\* C17 -- End-to-end older resume: an older pass for a category whose
\* oldest-seen watermark is T fetches its first page with before = T; when
\* the queued items include one with uploadtime T and an older one, and a
\* download succeeded, the committed oldest-seen watermark is the minimum
\* uploadtime of the queued items, which is below T.
C17_OlderResume ==
    (/\ requested = "older"
     /\ PassBegun
     /\ Truthy(pass_start[OldestKey(PassFormat)]))
    => LET T == pass_start[OldestKey(PassFormat)]
       IN  /\ direction = "older"
           /\ reference_ts = T
           /\ trace.cursors # <<>> => trace.cursors[1] = T
           /\ (/\ pass_exit = "commit"
               /\ download_stats.downloaded > 0
               /\ T \in QueuedTimes
               /\ \E t \in QueuedTimes : t < T)
                => /\ state[OldestKey(PassFormat)] = Min(QueuedTimes)
                   /\ state[OldestKey(PassFormat)] < T

\* the server answered before = T with an item at T and an older one, one
\* download succeeded and the pass committed
C17_Witness ==
    /\ requested = "older"
    /\ pass_exit = "commit"
    /\ Truthy(pass_start[OldestKey(PassFormat)])
    /\ trace.cursors # <<>>
    /\ trace.cursors[1] = pass_start[OldestKey(PassFormat)]
    /\ download_stats.downloaded > 0
    /\ pass_start[OldestKey(PassFormat)] \in QueuedTimes
    /\ state[OldestKey(PassFormat)] < pass_start[OldestKey(PassFormat)]

\* C18 -- Progress store failures are never fatal: with state.json missing
\* or unreadable the call runs as a first run (empty record, so a pass has
\* no reference and no cursor), and a failed save_state leaves the call
\* returning normally with every category processed and the record in
\* memory as committed.
C18_StoreFailuresNotFatal ==
    /\ (pc \in {"paging", "downloading", "commit"} /\ ~state_file.ok)
         => /\ pass_start = EmptyState
            /\ state = EmptyState
            /\ direction = "newer"
            /\ reference_ts = None
            /\ trace.cursors # <<>> => trace.cursors[1] = None
    /\ (pc = "done" /\ log.save_failed)
         => /\ stats.formats_processed = Len(formats)
            /\ pass_exit \in {"commit", "raised"}
            /\ format_state_updated
                 => state = update_state_for_format(pass_start, LastFormat, direction,
                                                    new_reference_ts)
                    \/ (direction = "older" /\ download_stats.downloaded = 0
                        /\ state = pass_start)

\* state.json was unreadable, the call downloaded as a first run, and the
\* final save failed too; the call returned
C18_Witness ==
    /\ pc = "done"
    /\ run = 1
    /\ log.save_failed
    /\ ~state_file.ok
    /\ state_file.rec # EmptyState
    /\ pass_start = EmptyState
    /\ replay_files # {}
    /\ Truthy(state[NewestKey(LastFormat)])

\* C19 -- Storage errors are recoverable: a failure to create the
\* partition directory or to write an item file counts as a failed download
\* and is not raised out of the download phase, so a pass leaves that phase
\* (short of an interrupt) only by its return, with every queued item
\* attempted.
C19_StorageErrorsCounted ==
    (pc = "commit" \/ pass_exit \in {"commit", "raised"})
    => /\ pass_exit # "raised"
       /\ Len(trace.attempted) = Len(new_replay_ids)

\* C20 -- Partition derivation: every item file lies under
\* category/raw/D with D the UTC calendar day of its uploadtime
\* (uploadtime div 86400), whatever the time zone of the machine.
C20_PartitionIsUtcDate ==
    \A file \in replay_files :
        file.path = <<RawDir, DateDir(file.uploadtime \div SecondsPerDay)>>

\* C21 -- Concurrent invocations race on the progress store: when two
\* invocations that each loaded the record at their start have both saved
\* and returned, state.json holds exactly the record of the one that saved
\* last; nothing of the other's record is merged in.
C21_LastWriterWins ==
    (/\ pc = "done"
     /\ other.pc = "saved"
     /\ ~log.interrupted
     /\ ~log.save_failed
     /\ ~other.save_failed)
    => state_file = [ok |-> TRUE, rec |-> IF other.last THEN other.state ELSE state]

\* the interleaving of the claim: the other invocation saved a higher
\* newest-seen watermark, then this one saved its older record over it, so
\* the persisted watermark went down
C21_Witness ==
    /\ pc = "done"
    /\ other.pc = "saved"
    /\ ~other.last
    /\ ~other.save_failed
    /\ ~log.save_failed
    /\ state_file.ok
    /\ \E f \in Range(formats) :
         /\ Truthy(state_file.rec[NewestKey(f)])
         /\ state_file.rec[NewestKey(f)] < other.state[NewestKey(f)]

\* C22 -- Consolidation output: for every date partition and every chunk
\* of its item files an output file is written if and only if a file of the
\* chunk parses, and it holds exactly the parsed records of the chunk, in
\* order; a partition without a parseable file has no output; every output
\* belongs to a chunk; the item files are left as they were.
C22_ConsolidationOutput ==
    consolidated.done
    => LET c == consolidated
           days == DayDirs(c.input, formats[1])
           ChunksOf(d) == Chunks(JsonFiles(c.input, formats[1], d, c.order), c.chunk_size)
           Parsed(chunk) == LET Ok(id) == Parses(c.plan, id) IN SelectSeq(chunk, Ok)
           OutputsAt(d, j, n) ==
               {o \in c.outputs : o.file.day = d
                                   /\ o.file.chunk = IF n > 1 THEN j ELSE 0}
       IN  /\ \A d \in days :
                LET chunks == ChunksOf(d)
                IN  /\ \A j \in 1..Len(chunks) :
                         /\ (OutputsAt(d, j, Len(chunks)) # {})
                               <=> (\E i \in 1..Len(chunks[j]) :
                                       Parses(c.plan, chunks[j][i]))
                         /\ \A o \in OutputsAt(d, j, Len(chunks)) :
                               o.records = Parsed(chunks[j])
                         /\ Cardinality(OutputsAt(d, j, Len(chunks))) <= 1
                    /\ (\A i \in 1..Len(Flatten(chunks)) :
                            ~Parses(c.plan, Flatten(chunks)[i]))
                          => \A o \in c.outputs : o.file.day # d
           /\ \A o \in c.outputs :
                /\ o.file.day \in days
                /\ o.file.chunk \in 0..Len(ChunksOf(o.file.day))
           /\ replay_files = c.input

\* a partition of 51 files consolidated in chunks of 50 of which one file
\* parses: one chunk has an output of one record, the other has none
C22_Witness ==
    /\ consolidated.done
    /\ consolidated.chunk_size = 50
    /\ consolidated.plan = "first"
    /\ Cardinality(consolidated.input) > FULL_PAGE_SIZE
    /\ Cardinality(consolidated.outputs) = 1
    /\ \E o \in consolidated.outputs : o.file.chunk > 0 /\ Len(o.records) = 1

\* the page the last fetch of the pass returned
LastPage ==
    fetch_replay_page(remote[PassFormat], trace.cursors[Len(trace.cursors)], inclusive)

\* C23 -- Newer-direction stop rule: in a newer pass with reference R,
\* when a fetched page holds an item with uploadtime <= R, the items of the
\* page before the first such item are queued (whatever the running
\* candidate is), that item and the later ones are not, pagination has
\* stopped on the watermark and no further page is fetched, even after a
\* full page.
C23_NewerStopRule ==
    (/\ direction = "newer"
     /\ Truthy(reference_ts)
     /\ PassBegun
     /\ trace.cursors # <<>>
     /\ Len(trace.lens) = Len(trace.cursors))
    => LET pg == LastPage
           seen == {i \in 1..Len(pg) : pg[i].uploadtime <= reference_ts}
           earlier == FULL_PAGE_SIZE * (Len(trace.cursors) - 1)
       IN  seen # {}
           => /\ done
              /\ stopped = "seen_watermark"
              /\ pc # "paging"
              /\ fetches = Len(trace.cursors)
              /\ Len(new_replay_ids) = earlier + Min(seen) - 1
              /\ \A i \in 1..(Min(seen) - 1) : new_replay_ids[earlier + i] = pg[i].id

\* a full page whose second item is at the watermark: the first item is
\* queued, the other 50 are not, and the pass went on to its commit
C23_Witness ==
    /\ direction = "newer"
    /\ Truthy(reference_ts)
    /\ pass_exit = "commit"
    /\ stopped = "seen_watermark"
    /\ fetches = 1
    /\ last_len = FULL_PAGE_SIZE
    /\ Len(new_replay_ids) = 1
    /\ max_pages > 1

\* the pages received in the current pass, in order
PagesReceived ==
    [j \in 1..Len(trace.lens) |->
        fetch_replay_page(remote[PassFormat], trace.cursors[j], inclusive)] \o <<>>

\* C24 -- Older-direction classification: in an older pass the reference
\* never stops pagination, the queue is every item of every page received,
\* in order, and the candidate oldest watermark is the minimum uploadtime
\* of all items received (absent when none was received).
C24_OlderQueuesEverything ==
    (direction = "older" /\ PassBegun /\ pass_exit # "interrupt" /\ pc # "interrupted")
    => LET pages == PagesReceived
           all == Flatten(pages)
       IN  /\ ~done
           /\ stopped # "seen_watermark"
           /\ new_replay_ids = [i \in 1..Len(all) |-> all[i].id]
           /\ new_reference_ts = IF all = <<>> THEN None
                                 ELSE Min({all[i].uploadtime : i \in 1..Len(all)})
           /\ format_state_updated <=> all # <<>>

\* an older pass whose page held an item at the reference and an older
\* one: both are queued and the candidate is the older uploadtime
C24_Witness ==
    /\ direction = "older"
    /\ pass_exit = "commit"
    /\ Len(new_replay_ids) > 1
    /\ reference_ts \in QueuedTimes
    /\ new_reference_ts < reference_ts
    /\ Len(trace.lens) = 1

\* C25 -- Cursor protocol: the first fetch of a newer pass has no cursor
\* and that of an older pass has before = reference; every later fetch
\* follows a full page and has before = the uploadtime of the last item of
\* that page; the page counter is the number of such advances; and when the
\* listing is descending the cursor never increases between fetches.
C25_CursorProtocol ==
    (PassBegun /\ trace.cursors # <<>>)
    => LET cur == trace.cursors
           pages == PagesReceived
       IN  /\ cur[1] = IF direction = "older" THEN reference_ts ELSE None
           /\ direction = "older" => Truthy(cur[1])
           /\ \A j \in 2..Len(cur) :
                /\ j - 1 <= Len(pages)
                /\ Len(pages[j - 1]) = FULL_PAGE_SIZE
                /\ cur[j] = pages[j - 1][FULL_PAGE_SIZE].uploadtime
                /\ (IsDescending(remote[PassFormat]) /\ Truthy(cur[j - 1]))
                     => cur[j] <= cur[j - 1]
           /\ page \in {Len(cur) - 1, Len(cur)}
           /\ pc = "paging" => page = Len(cur) /\ before_ts = pages[page][FULL_PAGE_SIZE].uploadtime
           /\ page = Len(cur)
                => /\ Len(pages) = Len(cur)
                   /\ Len(pages[page]) = FULL_PAGE_SIZE
                   /\ ~done

\* an older pass that advanced its cursor from the reference to the last
\* item of a full page and fetched again
C25_Witness ==
    /\ direction = "older"
    /\ PassBegun
    /\ Len(trace.cursors) = 2
    /\ trace.cursors[1] = reference_ts
    /\ trace.cursors[2] < trace.cursors[1]
    /\ page = 1
    /\ IsDescending(remote[PassFormat])

\* C26 -- Phase ordering within a category pass that is not interrupted:
\* no download is attempted before pagination has stopped, the record is
\* not changed while the pass pages or downloads, and once the watermark of
\* the pass is in the record every queued item has been attempted and the
\* pass has gone through its commit.
C26_PhaseOrder ==
    (PassBegun /\ pass_exit # "interrupt" /\ pc # "interrupted")
    => /\ trace.attempted # <<>> => (pc # "paging" /\ stopped # "no")
       /\ pc = "paging" => (stopped = "no" /\ pass_exit = "none")
       /\ pc \in {"paging", "downloading", "commit"} => state = pass_start
       /\ pc \in {"downloading", "commit"} => stopped # "no"
       /\ state # pass_start
            => /\ Len(trace.attempted) = Len(new_replay_ids)
               /\ pass_exit = "commit"

\* the key a pass may write: the category's own key in direction newer,
\* the category's _oldest key in direction older
OwnKey == IF direction = "newer" THEN NewestKey(PassFormat) ELSE OldestKey(PassFormat)

\* C27 -- Watermark independence (frame): a pass changes at most the
\* entry of its category that belongs to its effective direction; the other
\* watermark of the category and the entries of the other categories stay
\* as they were, and the committed value is decided by the candidate and
\* the old value of that one entry alone.
C27_WatermarkFrame ==
    PassBegun
    => LET old == pass_start[OwnKey]
           beyond == IF direction = "newer" THEN new_reference_ts > old
                     ELSE new_reference_ts < old
       IN  /\ \A k \in Keys \ {OwnKey} : state[k] = pass_start[k]
           /\ state[OwnKey] \in {old, new_reference_ts}
           /\ pass_exit = "commit"
                => state[OwnKey] =
                     IF /\ format_state_updated
                        /\ direction = "older" => download_stats.downloaded > 0
                        /\ old = None \/ beyond
                     THEN new_reference_ts ELSE old

\* an older pass lowered the oldest-seen watermark of the second category;
\* its newest-seen watermark and the first category's entries are untouched
C27_Witness ==
    /\ pass_exit = "commit"
    /\ direction = "older"
    /\ fmt_idx = 3
    /\ state[OldestKey(PassFormat)] < pass_start[OldestKey(PassFormat)]
    /\ Truthy(state[NewestKey(PassFormat)])
    /\ state[NewestKey(PassFormat)] > state[OldestKey(PassFormat)]
    /\ Truthy(state[OldestKey(formats[1])])

\* C28 -- Termination: whatever max_pages is and however the server
\* answers (full pages for ever, a cursor that never advances, failures),
\* unless Ctrl-C arrives the call reaches its end: every category's paging
\* and download phase is left, the record is saved and the statistics are
\* returned with formats_processed the number of categories.
C28_Terminates ==
    <>(\/ log.interrupted
       \/ /\ pc = "done"
          /\ stats.formats_processed = Len(formats)
          /\ fmt_idx = Len(formats) + 1)

\* the call returned after a server that never advanced the cursor made
\* it queue the same full page max_pages times
C28_Witness ==
    /\ pc = "done"
    /\ ~log.interrupted
    /\ inclusive
    /\ stopped = "max_pages"
    /\ max_pages = MaxPagesArg
    /\ Len(new_replay_ids) = MaxPagesArg * FULL_PAGE_SIZE
    /\ Cardinality(Range(new_replay_ids)) = FULL_PAGE_SIZE
    /\ stats.formats_processed = Len(formats)
    /\ Len(formats) = 2

\* C29 -- Fallback scope: in a run requested in direction older, a
\* category that has an oldest-seen watermark T is processed in direction
\* older whatever happened to the categories before it: its reference is T,
\* its first fetch has before = T, and its newest-seen watermark is left
\* alone.
C29_FallbackPerCategory ==
    (/\ PassBegun
     /\ requested = "older"
     /\ Truthy(pass_start[OldestKey(PassFormat)]))
    => /\ direction = "older"
       /\ reference_ts = pass_start[OldestKey(PassFormat)]
       /\ trace.cursors # <<>> => trace.cursors[1] = pass_start[OldestKey(PassFormat)]
       /\ state[NewestKey(PassFormat)] = pass_start[NewestKey(PassFormat)]

\* C30 -- No permanent gap in newer extraction: after the commit of a
\* newer pass over a descending listing served with an exclusive cursor,
\* every remote item above the watermark the pass started from was queued
\* by the pass or is still above the committed watermark, also when
\* max_pages or a failed fetch ended pagination.
C30_NoPermanentGap ==
    (/\ pass_exit = "commit"
     /\ direction = "newer"
     /\ ~inclusive
     /\ IsDescending(remote[LastFormat]))
    => LET items == ItemsOf(remote[LastFormat])
           W == pass_start[NewestKey(LastFormat)]
       IN  \A i \in 1..Len(items) :
              items[i].uploadtime > W
              => \/ items[i].id \in Range(new_replay_ids)
                 \/ items[i].uploadtime > state[NewestKey(LastFormat)]

\* C31 -- Interruption preserves earlier categories: when Ctrl-C arrives
\* during the pass of a later category, then at the time the interrupt
\* leaves extract_replays the progress store holds (unless a write failed)
\* the watermarks that the passes of the earlier categories committed to the
\* record (each of those passes ended at its commit step, none by an
\* exception), also when the interrupted category has no candidate yet.
C31_InterruptSavesEarlier ==
    (pc = "interrupted" /\ ~log.save_failed /\ log.raised = 0)
    => \A f \in DoneFormats :
         /\ load_state(state_file)[NewestKey(f)] = state[NewestKey(f)]
         /\ load_state(state_file)[OldestKey(f)] = state[OldestKey(f)]

\* C32 -- Older watermark is never advanced without a persisted item: on
\* every exit of an older pass (commit, Ctrl-C during paging or downloading,
\* exception out of the download phase) the oldest-seen watermark of the
\* category differs from what it was before the pass only if an item file
\* of the category was written by the pass.
C32_OlderNeedsDownload ==
    (pass_exit # "none" /\ direction = "older")
    => \A f \in Range(formats) :
         state[OldestKey(f)] # pass_start[OldestKey(f)]
         => \E file \in replay_files : file.fmt = f /\ file.via = "older"

\* the oldest- or newest-seen watermark the program holds under key k: the
\* record in memory, or the progress store between two runs
RecordedWatermark(k) == IF pc = "start" THEN load_state(state_file)[k] ELSE state[k]

\* C33 -- Monotonicity of the oldest-seen watermark: for every category,
\* no step of a pass, in either direction, and no step from one run to the
\* next removes a recorded oldest-seen watermark or replaces it by a larger
\* value.
C33_OldestMonotonic ==
    [][\A f \in Range(formats) :
         Truthy(RecordedWatermark(OldestKey(f)))
         => /\ Truthy(RecordedWatermark(OldestKey(f))')
            /\ RecordedWatermark(OldestKey(f))' <= RecordedWatermark(OldestKey(f))]_vars

\* a first run in direction older lowered the watermark to the uploadtime
\* of an item it wrote (the server's cursor being exclusive, the item was
\* below the watermark the run started from), and a second run in direction
\* newer changed the newest-seen watermark and ended with the oldest-seen
\* one where it was
C33_Witness ==
    /\ run = 2
    /\ pc = "done"
    /\ requested = "newer"
    /\ ~inclusive
    /\ \E f \in Range(formats) :
         /\ Truthy(state[OldestKey(f)])
         /\ state[OldestKey(f)] = prev.state[OldestKey(f)]
         /\ state[NewestKey(f)] # prev.state[NewestKey(f)]
         /\ \E file \in replay_files :
              /\ file.fmt = f
              /\ file.via = "older"
              /\ file.uploadtime = state[OldestKey(f)]

====
